---------------------------- MODULE Spec2Model ----------------------------
(***************************************************************************)
(* BotGPT backend: the conversation store (server/storage.ts with the      *)
(* schema of shared/schema.ts), the inference gateway                      *)
(* (server/groq-service.ts), the message-send route (server/routes.ts) in  *)
(* front of the message orchestrator, and the client's stream consumer     *)
(* (client/src/lib/api.ts, client/src/pages/chat.tsx).                     *)
(***************************************************************************)
EXTENDS Integers, Sequences, FiniteSets, TLC

(***************************************************************************)
(* Bounds of the model.                                                    *)
(***************************************************************************)
\* The most complete turns conversation "c1" holds before the modelled requests.
MaxHistoryTurns == 5

\* The context window: the last 10 messages (README "Conversation Memory").
ContextWindowSize == 10

\* The title prefix length of the orchestrator (spec section 8).
TitleMax == 30

ConvIds == {"c1", "c2"}
\* An identifier no conversation has.
GhostConv == "zz"
TurnIds == {"t1", "t2"}
RouteVariants == {1, 2}

Min(a, b) == IF a < b THEN a ELSE b

(***************************************************************************)
(* Texts.  A text is a TLA+ string; StrLen gives the length of the texts   *)
(* the model uses.                                                         *)
(***************************************************************************)
LongText == "How do I structure a FastAPI project and also add authentication flows?"
FallbackText == "Sorry, I encountered an error processing your request. Please try again."
DefaultTitleText == "New Conversation"

StrLen(s) ==
    CASE s = "" -> 0
      [] s = "Hello" -> 5
      [] s = "Tell me more" -> 12
      [] s = LongText -> 71
      [] s = DefaultTitleText -> 16
      [] OTHER -> 1

VARIABLES
    conversations,   \* the conversations table: id -> row
    messages,        \* the messages table: rows in insertion order
    clock,           \* the database's now()
    nextId,          \* the next gen_random_uuid() of the messages table
    seeded,          \* how many messages the store held before the modelled requests
    turn,            \* the message-send requests in flight, per request
    variant,         \* which registerRoutes of routes.ts serves
    events,          \* sendMessageStream: what the server writes to the response body
    pos,             \* sendMessageStream: how much of the body has been read
    streamPc,        \* sendMessageStream: where the call is
    fullContent,     \* sendMessageStream: fullContent
    emitted,         \* the values passed to onChunk, in order
    aiContent,       \* handleSendMessage: aiContent
    doneSeen,        \* whether a "data: [DONE]" line has been read
    op,              \* the store operation that ran last, alone (SpecStore)
    deleted,         \* the conversation ids deleteConversation has removed
    shown,           \* chat.tsx: the messages added to each conversation's list on the page
    calls,           \* the other requests to the routes in flight, per request
    sup,             \* storage.ts: pythonProcess, isRestarting, the children and the timers
    page,            \* chat.tsx: the state of ChatPage
    tasks            \* chat.tsx: the handlers that were started, each with what it closed over

storeVars == <<conversations, messages, clock, nextId>>
turnVars == <<seeded, turn, variant>>
streamVars == <<events, pos, streamPc, fullContent, emitted, aiContent, doneSeen>>
opVars == <<op, deleted>>
vars == <<conversations, messages, clock, nextId, seeded, turn, variant,
          events, pos, streamPc, fullContent, emitted, aiContent, doneSeen, op, deleted,
          shown, calls, sup, page, tasks>>
uiVars == <<sup, page, tasks>>


(***************************************************************************)
(* The conversation store: shared/schema.ts and server/storage.ts.         *)
(***************************************************************************)
\* conversations.title default, schema.ts line 16.  A title is the prefix of
\* `text` of length `len`, followed by "..." when `ellipsis`.
DefaultTitle == [text |-> DefaultTitleText, len |-> StrLen(DefaultTitleText), ellipsis |-> FALSE]

\* A row of the conversations table, with the defaults of schema.ts.
ConversationRow(id, now) ==
    [id |-> id, user_id |-> 1, mode |-> "open", title |-> DefaultTitle,
     created_at |-> now, updated_at |-> now]

\* A row of the messages table; id and timestamp are the column defaults.
MessageRow(id, conversationId, role, content, now) ==
    [id |-> id, conversation_id |-> conversationId, role |-> role,
     content |-> content, tokens_used |-> 0, timestamp |-> now]

\* A variant of the schema whose column has no foreign key.
ForeignKeyOk_unenforced(convs, conversationId) == TRUE

\* messages.conversation_id references conversations.id.
ForeignKeyOk(convs, conversationId) == conversationId \in DOMAIN convs

\* The result is the row, or nothing (undefined).
getConversation(convs, id) == IF id \in DOMAIN convs THEN <<convs[id]>> ELSE <<>>

\* orderBy(conversations.updated_at), the default direction.
RECURSIVE OrderByUpdatedAt(_)
OrderByUpdatedAt(rows) ==
    IF rows = {} THEN <<>>
    ELSE LET low == CHOOSE r \in rows : \A q \in rows : r.updated_at <= q.updated_at
         IN  <<low>> \o OrderByUpdatedAt(rows \ {low})

\* orderBy(desc(conversations.updated_at))
RECURSIVE OrderByUpdatedAtDesc(_)
OrderByUpdatedAtDesc(rows) ==
    IF rows = {} THEN <<>>
    ELSE LET top == CHOOSE r \in rows : \A q \in rows : q.updated_at <= r.updated_at
         IN  <<top>> \o OrderByUpdatedAtDesc(rows \ {top})

\* A variant without desc().
listConversations_ascending(convs, userId) ==
    OrderByUpdatedAt({convs[c] : c \in {d \in DOMAIN convs : convs[d].user_id = userId}})

listConversations(convs, userId) ==
    OrderByUpdatedAtDesc({convs[c] : c \in {d \in DOMAIN convs : convs[d].user_id = userId}})

RECURSIVE InsertByTimestamp(_, _)
InsertByTimestamp(sorted, m) ==
    IF sorted = <<>> THEN <<m>>
    ELSE IF sorted[Len(sorted)].timestamp <= m.timestamp THEN Append(sorted, m)
    ELSE Append(InsertByTimestamp(SubSeq(sorted, 1, Len(sorted) - 1), m), sorted[Len(sorted)])

\* A variant that orders by the timestamp, latest first.
RECURSIVE OrderByTimestamp_desc(_)
OrderByTimestamp_desc(rows) ==
    IF rows = <<>> THEN <<>>
    ELSE LET last == CHOOSE i \in 1..Len(rows) :
                        \A j \in 1..Len(rows) : rows[j].timestamp <= rows[i].timestamp
         IN  <<rows[last]>> \o OrderByTimestamp_desc([k \in 1..(Len(rows) - 1) |->
                                                       IF k < last THEN rows[k] ELSE rows[k + 1]])

RECURSIVE OrderByTimestamp(_)
OrderByTimestamp(rows) ==
    IF rows = <<>> THEN <<>>
    ELSE InsertByTimestamp(OrderByTimestamp(SubSeq(rows, 1, Len(rows) - 1)), rows[Len(rows)])

getMessages(msgs, conversationId) ==
    OrderByTimestamp(SelectSeq(msgs, LAMBDA m : m.conversation_id = conversationId))

createConversation(convs, row) == (row.id :> row) @@ convs

\* A variant of the schema without the cascade.
OnDeleteCascade_none(msgs, conversationId) == msgs

\* onDelete: "cascade" of messages.conversation_id.
OnDeleteCascade(msgs, conversationId) ==
    SelectSeq(msgs, LAMBDA m : m.conversation_id # conversationId)

\* A variant that returns without inserting the row.
createMessage_notInserted(msgs, row) == msgs

createMessage(msgs, row) == Append(msgs, row)

deleteConversation(convs, id) == [c \in DOMAIN convs \ {id} |-> convs[c]]

\* A variant whose delete has no where clause.
deleteMessagesByConversation_all(msgs, conversationId) == <<>>

deleteMessagesByConversation(msgs, conversationId) ==
    SelectSeq(msgs, LAMBDA m : m.conversation_id # conversationId)

\* The table with the row of `id` replaced by `row`, under the row's own id.
ReplaceRow(convs, id, row) ==
    IF row.id = id THEN [convs EXCEPT ![id] = row]
    ELSE (row.id :> row) @@ [c \in DOMAIN convs \ {id} |-> convs[c]]

\* A variant that spreads the data after the new updated_at.
updateConversation_dataLast(convs, id, data, now) ==
    IF id \notin DOMAIN convs THEN convs
    ELSE ReplaceRow(convs, id,
            [f \in DOMAIN convs[id] |->
                IF f \in DOMAIN data THEN data[f]
                ELSE IF f = "updated_at" THEN now
                ELSE convs[id][f]])

\* set({...data, updated_at: new Date()}) where id = id.
updateConversation(convs, id, data, now) ==
    IF id \notin DOMAIN convs THEN convs
    ELSE ReplaceRow(convs, id,
            [f \in DOMAIN convs[id] |->
                IF f = "updated_at" THEN now
                ELSE IF f \in DOMAIN data THEN data[f]
                ELSE convs[id][f]])

\* Whether the database takes the update: a new id must be free (primary
\* key), and the row must have no messages (the foreign key has no ON UPDATE
\* action).
UpdateAccepted(convs, msgs, id, data) ==
    ("id" \in DOMAIN data /\ data.id # id /\ id \in DOMAIN convs) =>
        /\ data.id \notin DOMAIN convs
        /\ \A i \in 1..Len(msgs) : msgs[i].conversation_id # id

(***************************************************************************)
(* The store before the modelled requests: "c1" holds k complete turns     *)
(* (a user message and its reply each), "c2" is fresh.                     *)
(***************************************************************************)
HistoryContent(i) == IF i % 2 = 1 THEN "Hello" ELSE "Tell me more"
HistoryRole(i) == IF i % 2 = 1 THEN "user" ELSE "assistant"

InitialMessages(n) == [i \in 1..n |-> MessageRow(i, "c1", HistoryRole(i), HistoryContent(i), i)]

InitialConversations(n) ==
    [c \in ConvIds |->
        IF c = "c1" /\ n > 0
        THEN [ConversationRow(c, 0) EXCEPT
                !.title = [text |-> "Hello", len |-> 5, ellipsis |-> FALSE],
                !.updated_at = n]
        ELSE ConversationRow(c, 0)]


(***************************************************************************)
(* The inference gateway: server/groq-service.ts.                          *)
(* An optional value (undefined, null) is a sequence of length 0 or 1.     *)
(***************************************************************************)
Some(x) == <<x>>
None == <<>>

\* What groq.chat.completions.create can do: raise, or return a completion.
Raised == [raised |-> TRUE, choices |-> <<>>]
Completion(choices) == [raised |-> FALSE, choices |-> choices]
Completions ==
    { Raised,
      Completion(<<>>),
      Completion(<<[message |-> None]>>),
      Completion(<<[message |-> Some([content |-> None])]>>),
      Completion(<<[message |-> Some([content |-> Some("")])]>>),
      Completion(<<[message |-> Some([content |-> Some("Hi there!")])]>>) }

\* A variant that puts the user's message before the history.
generateResponse_messages_userFirst(userMessage, conversationHistory) ==
    <<[role |-> "user", content |-> userMessage, src |-> 0]>> \o conversationHistory

\* The messages of the request: the history, then the user's message.
\* `src` is the stored row an entry was read from (0: the argument).
generateResponse_messages(userMessage, conversationHistory) ==
    conversationHistory \o <<[role |-> "user", content |-> userMessage, src |-> 0]>>

\* completion.choices[0]?.message?.content
CompletionContent(completion) ==
    LET first == IF Len(completion.choices) > 0 THEN Some(completion.choices[1]) ELSE None
        message == IF first # None THEN first[1].message ELSE None
    IN  IF message # None THEN message[1].content ELSE None

\* !content of a string or an absent value.
Falsy(opt) == opt = None \/ opt[1] = ""

Thrown == [ok |-> FALSE, text |-> ""]
Returned(text) == [ok |-> TRUE, text |-> text]
NoResult == [ok |-> FALSE, text |-> "pending"]

\* A variant whose catch block returns instead of rethrowing.
generateResponse_swallowsError(completion) ==
    IF completion.raised THEN Returned("")
    ELSE LET content == CompletionContent(completion)
         IN  IF Falsy(content) THEN Returned("") ELSE Returned(content[1])

\* A variant that tests the content against null only.
generateResponse_nullCheckOnly(completion) ==
    IF completion.raised THEN Thrown
    ELSE LET content == CompletionContent(completion)
         IN  IF content = None THEN Thrown ELSE Returned(content[1])

\* The outcome of generateResponse once the upstream call has settled.
generateResponse(completion) ==
    IF completion.raised THEN Thrown
    ELSE LET content == CompletionContent(completion)
         IN  IF Falsy(content) THEN Thrown ELSE Returned(content[1])

(***************************************************************************)
(* The message orchestrator behind the route (spec section 4.2, 4.4).      *)
(***************************************************************************)
LastN(s, n) == IF Len(s) <= n THEN s ELSE SubSeq(s, Len(s) - n + 1, Len(s))

\* A variant that hands on the whole history.
ContextWindow_untruncated(history, insertedId) ==
    LET prior == SelectSeq(history, LAMBDA m : m.id # insertedId)
    IN  [i \in 1..Len(prior) |->
            [role |-> prior[i].role, content |-> prior[i].content, src |-> prior[i].id]]

\* The context window: the trailing ContextWindowSize messages, without the
\* message just inserted, as role and content.
ContextWindow(history, insertedId) ==
    LET prior == SelectSeq(history, LAMBDA m : m.id # insertedId)
        window == LastN(prior, ContextWindowSize)
    IN  [i \in 1..Len(window) |->
            [role |-> window[i].role, content |-> window[i].content, src |-> window[i].id]]

\* A variant that cuts the content without marking the cut.
DeriveTitle_noEllipsis(content) ==
    [text |-> content, len |-> Min(StrLen(content), TitleMax), ellipsis |-> FALSE]

\* The title of a conversation, from its first user message.
DeriveTitle(content) ==
    [text |-> content, len |-> Min(StrLen(content), TitleMax),
     ellipsis |-> StrLen(content) > TitleMax]

\* The assistant content of a turn, from what the gateway gave.
AssistantContent(result) == IF result.ok THEN result.text ELSE FallbackText


(***************************************************************************)
(* The stream consumer: sendMessageStream of client/src/lib/api.ts and the *)
(* onChunk callback of handleSendMessage, client/src/pages/chat.tsx.       *)
(*                                                                         *)
(* A text is a sequence of units.  "da" "ta: " is the prefix `data: `,     *)
(* "{" is `{"token":"`, "}" is `"}`, "[DO" "NE]" is `[DONE]`, "a" and "b"  *)
(* are characters of a token, and NL is the line feed.  A read chunk can   *)
(* end between any two units.                                              *)
(***************************************************************************)
\* The most events the server writes to one response body.
MaxEvents == 3

NL == "\n"
DataPrefix == <<"da", "ta: ">>
DoneMarker == <<"[DO", "NE]">>
TokenChars == {"a", "b"}
Tokens == {<<"a">>, <<"b">>}

\* The server's events: a fragment, a fragment line cut short, the sentinel.
ServerEvents == {[kind |-> "token", token |-> t] : t \in Tokens}
                  \cup {[kind |-> "malformed", token |-> <<>>], [kind |-> "done", token |-> <<>>]}

\* The line of an event, as server-sent data: the line and an empty line.
EventText(e) ==
    CASE e.kind = "token" -> DataPrefix \o <<"{">> \o e.token \o <<"}", NL, NL>>
      [] e.kind = "malformed" -> DataPrefix \o <<"{", "a", NL, NL>>
      [] e.kind = "done" -> DataPrefix \o DoneMarker \o <<NL, NL>>

RECURSIVE Wire(_)
Wire(evs) == IF evs = <<>> THEN <<>> ELSE EventText(Head(evs)) \o Wire(Tail(evs))

RECURSIVE Flatten(_)
Flatten(ss) == IF ss = <<>> THEN <<>> ELSE Head(ss) \o Flatten(Tail(ss))

\* chunk.split("\n")
RECURSIVE Split(_)
Split(text) ==
    IF \A i \in 1..Len(text) : text[i] # NL THEN <<text>>
    ELSE LET i == CHOOSE j \in 1..Len(text) :
                     text[j] = NL /\ \A k \in 1..(j - 1) : text[k] # NL
         IN  <<SubSeq(text, 1, i - 1)>> \o Split(SubSeq(text, i + 1, Len(text)))

\* line.startsWith("data: ")
StartsWith(line, prefix) ==
    Len(line) >= Len(prefix) /\ SubSeq(line, 1, Len(prefix)) = prefix

\* line.slice(6)
Slice(line, prefix) == SubSeq(line, Len(prefix) + 1, Len(line))

\* JSON.parse(data) and parsed.token || "": an object with a token parses,
\* any other text makes JSON.parse throw.
JSONParse(data) ==
    IF /\ Len(data) >= 2
       /\ data[1] = "{"
       /\ data[Len(data)] = "}"
       /\ \A i \in 2..(Len(data) - 1) : data[i] \in TokenChars
    THEN [ok |-> TRUE, token |-> SubSeq(data, 2, Len(data) - 1)]
    ELSE [ok |-> FALSE, token |-> <<>>]

\* A variant whose catch block leaves the loop.
CatchParseError_breaks(st) == [st EXCEPT !.stop = TRUE]

\* catch (e) { }: the line is ignored.
CatchParseError(st) == st

\* The body of the for loop over the lines of a chunk.  st.tokens are the
\* tokens added to fullContent and passed to onChunk, st.stop is the break.
ProcessLine(line, st) ==
    IF ~StartsWith(line, DataPrefix) THEN st
    ELSE LET data == Slice(line, DataPrefix)
         IN  IF data = DoneMarker THEN [st EXCEPT !.stop = TRUE, !.done = TRUE]
             ELSE LET parsed == JSONParse(data)
                  IN  IF parsed.ok THEN [st EXCEPT !.tokens = Append(@, parsed.token)]
                      ELSE CatchParseError(st)

RECURSIVE ForLines(_, _, _)
ForLines(lines, i, st) ==
    IF i > Len(lines) \/ st.stop THEN st
    ELSE ForLines(lines, i + 1, ProcessLine(lines[i], st))

\* One pass of the while loop over a chunk that was read.
ProcessChunk(chunk) == ForLines(Split(chunk), 1, [tokens |-> <<>>, stop |-> FALSE, done |-> FALSE])

RECURSIVE EventSeqs(_)
EventSeqs(n) ==
    IF n = 0 THEN {<<>>}
    ELSE EventSeqs(n - 1) \cup {Append(es, e) : es \in EventSeqs(n - 1), e \in ServerEvents}

StreamIdle ==
    /\ events = <<>>
    /\ pos = 0
    /\ streamPc = "idle"
    /\ fullContent = <<>>
    /\ emitted = <<>>
    /\ aiContent = <<>>
    /\ doneSeen = FALSE

\* fetch answers with a body to read.
StreamOpen ==
    /\ streamPc = "start"
    /\ streamPc' = "reading"
    /\ UNCHANGED <<events, pos, fullContent, emitted, aiContent, doneSeen, storeVars, turnVars, opVars, shown, calls, uiVars>>

\* fetch answers with a status that is not ok, or without a body: the call throws.
StreamRejected ==
    /\ streamPc = "start"
    /\ streamPc' = "failed"
    /\ UNCHANGED <<events, pos, fullContent, emitted, aiContent, doneSeen, storeVars, turnVars, opVars, shown, calls, uiVars>>

\* reader.read() gives a chunk: the for loop runs over its lines.
StreamRead(k) ==
    /\ streamPc = "reading"
    /\ pos + k <= Len(Wire(events))
    /\ LET st == ProcessChunk(SubSeq(Wire(events), pos + 1, pos + k))
       IN  /\ fullContent' = fullContent \o Flatten(st.tokens)
           /\ emitted' = emitted \o st.tokens
           /\ aiContent' = aiContent \o Flatten(st.tokens)
           /\ doneSeen' = (doneSeen \/ st.done)
    /\ pos' = pos + k
    /\ UNCHANGED <<events, streamPc, storeVars, turnVars, opVars, shown, calls, uiVars>>

\* reader.read() gives done: the call returns fullContent.
StreamEnd ==
    /\ streamPc = "reading"
    /\ pos = Len(Wire(events))
    /\ streamPc' = "done"
    /\ UNCHANGED <<events, pos, fullContent, emitted, aiContent, doneSeen, storeVars, turnVars, opVars, shown, calls, uiVars>>

\* reader.read() rejects: the call throws.
StreamReadFails ==
    /\ streamPc = "reading"
    /\ streamPc' = "failed"
    /\ UNCHANGED <<events, pos, fullContent, emitted, aiContent, doneSeen, storeVars, turnVars, opVars, shown, calls, uiVars>>


(***************************************************************************)
(* The store's operations run one at a time, in any order (SpecStore).     *)
(***************************************************************************)
\* The database clock at which SpecStore stops inserting and updating.
MaxStoreClock == 6

\* The id createConversation draws; an id is never drawn twice.
NewConvIds == {"c3"}

\* The users that own conversations.
UserIds == {1, 2}

NoOp == <<"none", "">>

StoreIdle ==
    /\ op = NoOp
    /\ deleted = {}

\* The fields updateConversation is given.
UpdateData ==
    { <<>>, [title |-> DeriveTitle("Hello")], [updated_at |-> 0], [id |-> "c3"] }

StoreCreateConversation(id, userId) ==
    /\ clock < MaxStoreClock
    /\ id \notin DOMAIN conversations \cup deleted
    /\ conversations' = createConversation(conversations,
                            [ConversationRow(id, clock) EXCEPT !.user_id = userId])
    /\ clock' = clock + 1
    /\ op' = <<"createConversation", id>>
    /\ UNCHANGED <<messages, nextId, deleted, turnVars, streamVars, shown, calls, uiVars>>

\* The insert fails, and stores nothing, when the foreign key has no row.
StoreCreateMessage(conversationId, role) ==
    /\ clock < MaxStoreClock
    /\ IF ForeignKeyOk(conversations, conversationId)
       THEN /\ messages' = createMessage(messages,
                              MessageRow(nextId, conversationId, role, "Hello", clock))
            /\ nextId' = nextId + 1
       ELSE UNCHANGED <<messages, nextId>>
    /\ clock' = clock + 1
    /\ op' = <<"createMessage", conversationId>>
    /\ UNCHANGED <<conversations, deleted, turnVars, streamVars, shown, calls, uiVars>>

StoreDeleteConversation(id) ==
    /\ conversations' = deleteConversation(conversations, id)
    /\ messages' = OnDeleteCascade(messages, id)
    /\ deleted' = deleted \cup ({id} \cap DOMAIN conversations)
    /\ op' = <<"deleteConversation", id>>
    /\ UNCHANGED <<clock, nextId, turnVars, streamVars, shown, calls, uiVars>>

StoreDeleteMessagesByConversation(id) ==
    /\ messages' = deleteMessagesByConversation(messages, id)
    /\ op' = <<"deleteMessagesByConversation", id>>
    /\ UNCHANGED <<conversations, clock, nextId, deleted, turnVars, streamVars, shown, calls, uiVars>>

StoreUpdateConversation(id, data) ==
    /\ clock < MaxStoreClock
    /\ IF UpdateAccepted(conversations, messages, id, data)
       THEN conversations' = updateConversation(conversations, id, data, clock)
       ELSE UNCHANGED conversations
    /\ clock' = clock + 1
    /\ op' = <<"updateConversation", id, data>>
    /\ UNCHANGED <<messages, nextId, deleted, turnVars, streamVars, shown, calls, uiVars>>

(***************************************************************************)
(* POST /api/conversations/:id/messages: server/routes.ts, both variants.  *)
(***************************************************************************)
Bodies == { [mode |-> "open"], [content |-> ""], [content |-> "Hello"], [content |-> LongText] }

\* const { content } = req.body
BodyContent(body) == IF "content" \in DOMAIN body THEN Some(body.content) ELSE None

\* A variant that tests for an absent field only.
ContentMissing_undefinedOnly(body) == BodyContent(body) = None

\* if (!content)
ContentMissing(body) == Falsy(BodyContent(body))

\* The status of the catch block.
CatchStatus(v) == IF v = 1 THEN 500 ELSE 503

\* What the backend answers: response.ok, response.status, and whether
\* response.json() can parse the body.
BackendOk == [ok |-> TRUE, status |-> 200, json |-> TRUE]
BackendNotFound == [ok |-> FALSE, status |-> 404, json |-> TRUE]
BackendError == [ok |-> FALSE, status |-> 500, json |-> TRUE]
NoResponse == [ok |-> FALSE, status |-> 0, json |-> FALSE]

\* The status the route sends once the backend has answered.
RouteStatus(v, response) ==
    IF ~response.ok
    THEN IF v = 1 /\ ~response.json THEN CatchStatus(v) ELSE response.status
    ELSE IF ~response.json THEN CatchStatus(v) ELSE 201

\* The history "c1" starts with, in complete turns: as many messages as the
\* context window holds, which the modelled turns add to; "c2" starts empty.
SeededTurns == {MaxHistoryTurns}

IdleTurn ==
    [pc |-> "idle", conv |-> GhostConv, body |-> [mode |-> "open"], forwarded |-> FALSE,
     first |-> FALSE, userMsgId |-> 0, builtAt |-> 0, request |-> <<>>, completion |-> Raised, result |-> NoResult,
     aiMsgId |-> 0, response |-> NoResponse, status |-> 0]

TurnContent(t) == BodyContent(turn[t].body)[1]

\* handleSendMessage of chat.tsx before its await: the user's message is put
\* on the list, then the assistant's placeholder.
OptimisticAppend_placeholderFirst(list, t) ==
    list \o <<[turn |-> t, role |-> "assistant"], [turn |-> t, role |-> "user"]>>

OptimisticAppend(list, t) ==
    list \o <<[turn |-> t, role |-> "user"], [turn |-> t, role |-> "assistant"]>>

\* The page sends for a conversation of its list, with a content field.
FromPage(id, body) == id \in ConvIds /\ "content" \in DOMAIN body

PageIdle == shown = [c \in ConvIds |-> <<>>]

\* The route up to its await of proxyToFastAPI; a request of the page comes
\* out of handleSendMessage, which has put its two entries on the list.
SendMessage(t, id, body) ==
    /\ turn[t].pc = "idle"
    /\ turn' = [turn EXCEPT ![t] =
                  IF ContentMissing(body)
                  THEN [@ EXCEPT !.pc = "responded", !.conv = id, !.body = body, !.status = 400]
                  ELSE [@ EXCEPT !.pc = "fetch", !.conv = id, !.body = body, !.forwarded = TRUE]]
    /\ shown' = IF FromPage(id, body) THEN [shown EXCEPT ![id] = OptimisticAppend(@, t)]
                ELSE shown
    /\ UNCHANGED <<storeVars, seeded, variant, streamVars, opVars, calls, uiVars>>

\* fetch rejects: the backend is not reachable.
ProxyFails(t) ==
    /\ turn[t].pc = "fetch"
    /\ turn' = [turn EXCEPT ![t].pc = "responded", ![t].status = CatchStatus(variant)]
    /\ UNCHANGED <<storeVars, seeded, variant, streamVars, opVars, shown, calls, uiVars>>

\* Orchestrator, RECEIVED: the conversation is looked up, and whether it has
\* messages yet.  Turns take no lock: another turn can run before the next step.
ReceiveMessage(t) ==
    /\ turn[t].pc = "fetch"
    /\ turn' = [turn EXCEPT ![t] =
                  IF getConversation(conversations, turn[t].conv) = None
                  THEN [@ EXCEPT !.pc = "replied", !.response = BackendNotFound]
                  ELSE [@ EXCEPT !.pc = "received",
                                 !.first = (getMessages(messages, turn[t].conv) = <<>>)]]
    /\ UNCHANGED <<storeVars, seeded, variant, streamVars, opVars, shown, calls, uiVars>>

\* Orchestrator steps 1 and 2: the user message, and the title of a first message.
PersistUser(t) ==
    /\ turn[t].pc = "received"
    /\ IF ~ForeignKeyOk(conversations, turn[t].conv)
       THEN /\ turn' = [turn EXCEPT ![t].pc = "replied", ![t].response = BackendError]
            /\ UNCHANGED storeVars
       ELSE LET id == turn[t].conv
                data == IF turn[t].first THEN [title |-> DeriveTitle(TurnContent(t))] ELSE <<>>
            IN  /\ messages' = createMessage(messages, MessageRow(nextId, id, "user", TurnContent(t), clock))
                /\ conversations' = updateConversation(conversations, id, data, clock)
                /\ clock' = clock + 1
                /\ nextId' = nextId + 1
                /\ turn' = [turn EXCEPT ![t].pc = "build", ![t].userMsgId = nextId]
    /\ UNCHANGED <<seeded, variant, streamVars, opVars, shown, calls, uiVars>>

\* Orchestrator step 3, and generateResponse up to its await of the upstream call.
BuildContext(t) ==
    /\ turn[t].pc = "build"
    /\ LET history == ContextWindow(getMessages(messages, turn[t].conv), turn[t].userMsgId)
       IN  turn' = [turn EXCEPT ![t].pc = "infer", ![t].builtAt = clock,
                                ![t].request = generateResponse_messages(TurnContent(t), history)]
    /\ UNCHANGED <<storeVars, seeded, variant, streamVars, opVars, shown, calls, uiVars>>

\* The upstream call settles; orchestrator step 4.
Infer(t, completion) ==
    /\ turn[t].pc = "infer"
    /\ turn' = [turn EXCEPT ![t].pc = "persist", ![t].completion = completion,
                            ![t].result = generateResponse(completion)]
    /\ UNCHANGED <<storeVars, seeded, variant, streamVars, opVars, shown, calls, uiVars>>

\* Orchestrator steps 5 and 6: the assistant message, and the answer.
PersistAssistant(t) ==
    /\ turn[t].pc = "persist"
    /\ IF ~ForeignKeyOk(conversations, turn[t].conv)
       THEN /\ turn' = [turn EXCEPT ![t].pc = "replied", ![t].response = BackendError]
            /\ UNCHANGED storeVars
       ELSE /\ messages' = createMessage(messages,
                              MessageRow(nextId, turn[t].conv, "assistant",
                                         AssistantContent(turn[t].result), clock))
            /\ conversations' = updateConversation(conversations, turn[t].conv, <<>>, clock)
            /\ clock' = clock + 1
            /\ nextId' = nextId + 1
            /\ turn' = [turn EXCEPT ![t].pc = "replied", ![t].aiMsgId = nextId,
                                    ![t].response = BackendOk]
    /\ UNCHANGED <<seeded, variant, streamVars, opVars, shown, calls, uiVars>>

\* The route after its await: the backend's answer is passed on.
RouteReply(t) ==
    /\ turn[t].pc = "replied"
    /\ turn' = [turn EXCEPT ![t].pc = "responded",
                            ![t].status = RouteStatus(variant, turn[t].response)]
    /\ UNCHANGED <<storeVars, seeded, variant, streamVars, opVars, shown, calls, uiVars>>

(***************************************************************************)
(* The supervisor of the Python backend: startPythonBackend and            *)
(* stopPythonBackend of server/storage.ts (SpecSupervisor).                *)
(***************************************************************************)
\* How many children the supervisor spawns before the model stops it.
MaxChildren == 3

Children == 1..MaxChildren

\* let pythonProcess: ChildProcess | null = null
NoProcess == 0

\* The code of a child killed by a signal (null), of one that could not be
\* spawned, and the codes of one that exits by itself.
KilledCode == -1
SpawnErrorCode == -2
ExitCodes == {0, 1, KilledCode}

\* setTimeout(..., 3000) of startPythonBackend and setTimeout(..., 5000) of
\* the 'close' listener.
ReadyTimer == [kind |-> "ready", delay |-> 3]
RestartTimer == [kind |-> "restart", delay |-> 5]

SupervisorIdle ==
    sup = [pythonProcess |-> NoProcess, isRestarting |-> FALSE,
           child |-> [n \in Children |-> "unborn"], spawned |-> 0, timers |-> <<>>,
           stopped |-> FALSE, crashes |-> 0, restarts |-> 0, last |-> <<"none", 0>>]

\* The child is a process of the operating system: spawned, and not yet
\* exited, whether or not SIGTERM was sent to it.
Alive(n) == sup.child[n] \in {"alive", "killed"}

\* if (pythonProcess || isRestarting) return;
AlreadyRunning(s) == s.pythonProcess # NoProcess \/ s.isRestarting

\* The body of startPythonBackend on the state s: nothing when the guard
\* holds; otherwise the child is spawned (how says whether the process could
\* be started), the handle is set and the 3-second timer is armed.
startPythonBackend(s, how) ==
    IF AlreadyRunning(s) THEN s
    ELSE [s EXCEPT !.isRestarting = TRUE,
                   !.spawned = @ + 1,
                   !.pythonProcess = s.spawned + 1,
                   !.child[s.spawned + 1] = how,
                   !.timers = Append(@, ReadyTimer)]

\* A variant of the listener that arms the timer whatever the code is.
OnClose_restartsAlways(s, n, code) ==
    [s EXCEPT !.pythonProcess = NoProcess,
              !.isRestarting = FALSE,
              !.child[n] = "closed",
              !.crashes = IF code # 0 THEN @ + 1 ELSE @,
              !.timers = Append(@, RestartTimer)]

\* pythonProcess.on("close", (code) => ...): the handle and the flag are
\* reset, and a code other than 0 arms the 5-second timer.
OnClose(s, n, code) ==
    [s EXCEPT !.pythonProcess = NoProcess,
              !.isRestarting = FALSE,
              !.child[n] = "closed",
              !.crashes = IF code # 0 THEN @ + 1 ELSE @,
              !.timers = IF code # 0 THEN Append(@, RestartTimer) ELSE @]

\* pythonProcess.on("error", ...)
OnError(s, n) ==
    [s EXCEPT !.pythonProcess = NoProcess, !.isRestarting = FALSE, !.child[n] = "errored"]

\* stopPythonBackend: SIGTERM to the child of the handle, and the handle is
\* cleared; the child is alive until it exits.
stopPythonBackend(s) ==
    IF s.pythonProcess = NoProcess THEN s
    ELSE [s EXCEPT !.child[s.pythonProcess] = IF @ = "alive" THEN "killed" ELSE @,
                   !.pythonProcess = NoProcess]

\* The timer at position i is due before every timer armed before it: an
\* earlier timer with a delay that is not longer fires first.
MayFire(timers, i) == \A j \in 1..(i - 1) : timers[j].delay > timers[i].delay

Without(seq, i) == SubSeq(seq, 1, i - 1) \o SubSeq(seq, i + 1, Len(seq))

\* startPythonBackend is called by the server.
StartCalled(how) ==
    /\ sup.spawned < MaxChildren \/ AlreadyRunning(sup)
    /\ sup' = [startPythonBackend(sup, how) EXCEPT !.stopped = FALSE, !.last = <<"start", 0>>]
    /\ UNCHANGED <<storeVars, turnVars, streamVars, opVars, shown, calls, page, tasks>>

\* stopPythonBackend is called.
StopCalled ==
    /\ sup' = [stopPythonBackend(sup) EXCEPT !.stopped = TRUE, !.last = <<"stop", 0>>]
    /\ UNCHANGED <<storeVars, turnVars, streamVars, opVars, shown, calls, page, tasks>>

\* The child could not be spawned: 'error' is emitted.
ChildError(n) ==
    /\ sup.child[n] = "failed"
    /\ sup' = [OnError(sup, n) EXCEPT !.last = <<"error", n>>]
    /\ UNCHANGED <<storeVars, turnVars, streamVars, opVars, shown, calls, page, tasks>>

\* The child has exited and 'close' is emitted: with a code of its own, or
\* with the code of a failed spawn after 'error'.
ChildClose(n, code) ==
    /\ \/ Alive(n) /\ code \in ExitCodes
       \/ sup.child[n] = "errored" /\ code = SpawnErrorCode
    /\ sup' = [OnClose(sup, n, code) EXCEPT !.last = <<"close", code>>]
    /\ UNCHANGED <<storeVars, turnVars, streamVars, opVars, shown, calls, page, tasks>>

\* The 3-second timer: isRestarting = false.
ReadyTimerFires(i) ==
    /\ i \in 1..Len(sup.timers)
    /\ sup.timers[i] = ReadyTimer
    /\ MayFire(sup.timers, i)
    /\ sup' = [sup EXCEPT !.isRestarting = FALSE, !.timers = Without(@, i),
                          !.last = <<"ready", 0>>]
    /\ UNCHANGED <<storeVars, turnVars, streamVars, opVars, shown, calls, page, tasks>>

\* The 5-second timer: startPythonBackend().
RestartTimerFires(i, how) ==
    /\ i \in 1..Len(sup.timers)
    /\ sup.timers[i] = RestartTimer
    /\ MayFire(sup.timers, i)
    /\ sup.spawned < MaxChildren \/ AlreadyRunning(sup)
    /\ sup' = [startPythonBackend([sup EXCEPT !.timers = Without(@, i)], how)
                  EXCEPT !.restarts = @ + 1, !.last = <<"restart", 0>>]
    /\ UNCHANGED <<storeVars, turnVars, streamVars, opVars, shown, calls, page, tasks>>

(***************************************************************************)
(* The chat page: client/src/pages/chat.tsx (SpecPage).                    *)
(***************************************************************************)
\* How many handlers the user starts after the page has loaded, and how
\* many fragments a stream delivers.
MaxTasks == 2
MaxChunks == 2

\* The ids the backend gives to the conversations it creates.
NewIds == <<"n1", "n2", "n3", "n4", "n5", "n6", "n7", "n8">>

\* A conversation as the page holds it.
PageConversation(id) == [id |-> id, messages |-> <<>>]

\* What api.listConversations can resolve with.
ListResults ==
    { <<>>, <<PageConversation("k1")>> }

\* The step taken settled no request.
NothingSettled == <<"none", "none">>

\* useState([]), useState(""), useState(false), useState(true); created and
\* removed are the ids of the create and delete requests that succeeded.
InitialPage ==
    [conversations |-> <<>>, activeId |-> "", isTyping |-> FALSE, isLoading |-> TRUE,
     created |-> {}, removed |-> {}, started |-> 0, last |-> NothingSettled]

PageUnused ==
    /\ page = InitialPage
    /\ tasks = <<>>

\* A handler that was started: what it is, where it is, the conversations
\* and activeId of the render it belongs to, and its own locals.
Task(kind, pc, p, id) ==
    [kind |-> kind, pc |-> pc, conversations |-> p.conversations, activeId |-> p.activeId,
     id |-> id, aiMessageId |-> <<0, "">>, aiContent |-> <<>>, listed |-> <<>>,
     outcome |-> "none"]

Ids(convs) == {convs[i].id : i \in 1..Len(convs)}

\* conversations.find(c => c.id === activeId)
HasActiveConversation(p) == p.activeId \in Ids(p.conversations)

\* prev.filter(c => c.id !== id)
FilterOut(convs, id) == SelectSeq(convs, LAMBDA c : c.id # id)

\* prev.map(c => c.id === activeId ? { ...c, messages: [...c.messages, m] } : c)
AppendMessage(convs, activeId, m) ==
    [i \in 1..Len(convs) |->
        IF convs[i].id = activeId
        THEN [convs[i] EXCEPT !.messages = Append(@, m)]
        ELSE convs[i]]

\* A variant that finds the message to update by its role.
OnChunk_byRole(convs, activeId, aiMessageId, content) ==
    [i \in 1..Len(convs) |->
        IF convs[i].id = activeId
        THEN [convs[i] EXCEPT !.messages =
                [j \in 1..Len(@) |->
                    IF @[j].role = "assistant" THEN [@[j] EXCEPT !.content = content]
                    ELSE @[j]]]
        ELSE convs[i]]

\* The update of the onChunk callback: prev.map(c => c.id === activeId ?
\* { ...c, messages: c.messages.map(m => m.id === aiMessageId ? ... : m) } : c)
OnChunk(convs, activeId, aiMessageId, content) ==
    [i \in 1..Len(convs) |->
        IF convs[i].id = activeId
        THEN [convs[i] EXCEPT !.messages =
                [j \in 1..Len(@) |->
                    IF @[j].id = aiMessageId THEN [@[j] EXCEPT !.content = content]
                    ELSE @[j]]]
        ELSE convs[i]]

\* A variant that creates a conversation unless there are two or more.
HasConversations_moreThanOne(convs) == Len(convs) > 1

\* if (convs.length > 0)
HasConversations(convs) == Len(convs) > 0

\* A variant that resets the indicator at the end of the try block only.
AfterSend_noFinally(isTyping, outcome) == IF outcome = "resolved" THEN FALSE ELSE isTyping

\* finally { setIsTyping(false) }
AfterSend(isTyping, outcome) == FALSE

\* The next id of the backend: one for each create request that succeeded.
NextNewId == NewIds[Cardinality(page.created) + 1]

\* The user's actions are there once the page has loaded.
Loaded == ~page.isLoading

\* The handler t has run to its end: nothing of it is used again.
Finish(ts, t) ==
    [ts EXCEPT ![t] = Task(ts[t].kind, "done", [conversations |-> <<>>, activeId |-> ""], "")]

InFlight(kind) == {t \in 1..Len(tasks) : tasks[t].kind = kind /\ tasks[t].pc # "done"}

\* loadData: api.initUser() settles.
LoadInitUser(ok) ==
    /\ Len(tasks) >= 1 /\ tasks[1].pc = "init"
    /\ IF ok
       THEN /\ tasks' = [tasks EXCEPT ![1].pc = "list"]
            /\ UNCHANGED page
       ELSE /\ tasks' = Finish(tasks, 1)
            /\ page' = [page EXCEPT !.isLoading = FALSE, !.last = <<"load", "init failed">>]
    /\ UNCHANGED <<storeVars, turnVars, streamVars, opVars, shown, calls, sup>>

\* loadData: api.listConversations() resolves with convs.
LoadList(convs) ==
    /\ Len(tasks) >= 1 /\ tasks[1].pc = "list"
    /\ IF HasConversations(convs)
       THEN /\ page' = [page EXCEPT !.conversations = convs, !.activeId = convs[1].id,
                                    !.isLoading = FALSE, !.last = <<"load", "ok">>]
            /\ tasks' = Finish(tasks, 1)
       ELSE /\ page' = [page EXCEPT !.conversations = convs]
            /\ tasks' = [tasks EXCEPT ![1].pc = "create", ![1].listed = convs]
    /\ UNCHANGED <<storeVars, turnVars, streamVars, opVars, shown, calls, sup>>

\* loadData: api.listConversations() rejects.
LoadListFails ==
    /\ Len(tasks) >= 1 /\ tasks[1].pc = "list"
    /\ tasks' = Finish(tasks, 1)
    /\ page' = [page EXCEPT !.isLoading = FALSE, !.last = <<"load", "list failed">>]
    /\ UNCHANGED <<storeVars, turnVars, streamVars, opVars, shown, calls, sup>>

\* loadData: api.createConversation("open") settles.
LoadCreate(ok) ==
    /\ Len(tasks) >= 1 /\ tasks[1].pc = "create"
    /\ IF ok
       THEN /\ page' = [page EXCEPT !.conversations = <<PageConversation(NextNewId)>>,
                                    !.activeId = NextNewId,
                                    !.isLoading = FALSE,
                                    !.created = @ \cup {NextNewId},
                                    !.last = <<"load", "ok">>]
            /\ tasks' = Finish(tasks, 1)
       ELSE /\ page' = [page EXCEPT !.isLoading = FALSE, !.last = <<"load", "create failed">>]
            /\ tasks' = Finish(tasks, 1)
    /\ UNCHANGED <<storeVars, turnVars, streamVars, opVars, shown, calls, sup>>

\* handleSelectConversation
SelectConversation(id) ==
    /\ Loaded
    /\ id \in Ids(page.conversations)
    /\ id # page.activeId
    /\ page' = [page EXCEPT !.activeId = id, !.last = NothingSettled]
    /\ UNCHANGED <<storeVars, turnVars, streamVars, opVars, shown, calls, sup, tasks>>

\* handleNewChat up to its await.
NewChatClicked ==
    /\ Loaded
    /\ page.started < MaxTasks
    /\ tasks' = Append(tasks, Task("newChat", "await", page, ""))
    /\ page' = [page EXCEPT !.started = @ + 1, !.last = NothingSettled]
    /\ UNCHANGED <<storeVars, turnVars, streamVars, opVars, shown, calls, sup>>

\* handleNewChat after its await: setConversations([newConv, ...conversations])
\* with the conversations of the handler's render, or the catch block.
CreateSettles(t, ok) ==
    /\ t \in 1..Len(tasks)
    /\ tasks[t].kind = "newChat" /\ tasks[t].pc = "await"
    /\ IF ok
       THEN /\ page' = [page EXCEPT
                          !.conversations = <<PageConversation(NextNewId)>> \o tasks[t].conversations,
                          !.activeId = NextNewId,
                          !.created = @ \cup {NextNewId},
                          !.last = <<"newChat", "ok">>]
            /\ tasks' = Finish(tasks, t)
       ELSE /\ tasks' = Finish(tasks, t)
            /\ page' = [page EXCEPT !.last = <<"newChat", "failed">>]
    /\ UNCHANGED <<storeVars, turnVars, streamVars, opVars, shown, calls, sup>>

\* handleDeleteConversation up to its await.
DeleteClicked(id) ==
    /\ Loaded
    /\ page.started < MaxTasks
    /\ id \in Ids(page.conversations)
    /\ tasks' = Append(tasks, Task("delete", "await", page, id))
    /\ page' = [page EXCEPT !.started = @ + 1, !.last = NothingSettled]
    /\ UNCHANGED <<storeVars, turnVars, streamVars, opVars, shown, calls, sup>>

\* handleDeleteConversation after its await: the functional update of the
\* list, then activeId and remaining from the handler's render; with nothing
\* remaining it calls the handleNewChat of that render.
DeleteSettles(t, ok) ==
    /\ t \in 1..Len(tasks)
    /\ tasks[t].kind = "delete" /\ tasks[t].pc = "await"
    /\ IF ok
       THEN LET id == tasks[t].id
                remaining == FilterOut(tasks[t].conversations, id)
                done == Finish(tasks, t)
            IN  /\ page' = [page EXCEPT
                              !.conversations = FilterOut(@, id),
                              !.removed = @ \cup {id},
                              !.last = <<"delete", "ok">>,
                              !.activeId = IF tasks[t].activeId = id /\ remaining # <<>>
                                           THEN remaining[1].id ELSE @]
                /\ tasks' = IF tasks[t].activeId = id /\ remaining = <<>>
                            THEN Append(done, Task("newChat", "await", tasks[t], "auto"))
                            ELSE done
       ELSE /\ tasks' = Finish(tasks, t)
            /\ page' = [page EXCEPT !.last = <<"delete", "failed">>]
    /\ UNCHANGED <<storeVars, turnVars, streamVars, opVars, shown, calls, sup>>

\* ChatArea: the send button is disabled while isTyping; the Enter key calls
\* handleSend whatever isTyping is.
MaySend(via, isTyping) == via = "enter" \/ ~isTyping

\* handleSendMessage up to its await: isTyping, the user's message, the
\* assistant's placeholder.
SendStarted(via) ==
    /\ Loaded
    /\ page.started < MaxTasks
    /\ HasActiveConversation(page)
    /\ MaySend(via, page.isTyping)
    /\ LET t == Len(tasks) + 1
           userMessage == [id |-> <<t, "user">>, role |-> "user", content |-> <<"q">>]
           placeholder == [id |-> <<t, "assistant">>, role |-> "assistant", content |-> <<>>]
       IN  /\ page' = [page EXCEPT
                         !.isTyping = TRUE,
                         !.started = @ + 1,
                         !.last = NothingSettled,
                         !.conversations =
                             AppendMessage(AppendMessage(@, page.activeId, userMessage),
                                           page.activeId, placeholder)]
           /\ tasks' = Append(tasks, [Task("send", "await", page, via) EXCEPT
                                         !.aiMessageId = <<t, "assistant">>])
    /\ UNCHANGED <<storeVars, turnVars, streamVars, opVars, shown, calls, sup>>

\* The onChunk callback of a send.
SendChunk(t) ==
    /\ t \in 1..Len(tasks)
    /\ tasks[t].kind = "send" /\ tasks[t].pc = "await"
    /\ Len(tasks[t].aiContent) < MaxChunks
    /\ LET content == Append(tasks[t].aiContent, "a")
       IN  /\ tasks' = [tasks EXCEPT ![t].aiContent = content]
           /\ page' = [page EXCEPT
                         !.conversations =
                             OnChunk(@, tasks[t].activeId, tasks[t].aiMessageId, content),
                         !.last = <<"chunk", "none">>]
    /\ UNCHANGED <<storeVars, turnVars, streamVars, opVars, shown, calls, sup>>

\* api.sendMessageStream resolves or rejects (HTTP error and missing body
\* before any fragment); the finally block.
SendSettles(t, outcome) ==
    /\ t \in 1..Len(tasks)
    /\ tasks[t].kind = "send" /\ tasks[t].pc = "await"
    /\ outcome \in {"http error", "no body"} => tasks[t].aiContent = <<>>
    /\ tasks' = Finish(tasks, t)
    /\ page' = [page EXCEPT !.isTyping = AfterSend(@, outcome), !.last = <<"send", outcome>>]
    /\ UNCHANGED <<storeVars, turnVars, streamVars, opVars, shown, calls, sup>>

(***************************************************************************)
(* The other routes of server/routes.ts, both variants (SpecRoutes).       *)
(***************************************************************************)
CallIds == {"r1", "r2"}
Routes == {"health", "init", "list", "get", "create", "delete"}

\* A 500 whose body is not JSON.
BackendErrorText == [ok |-> FALSE, status |-> 500, json |-> FALSE]

\* What a route sends: the status and the JSON body, by its kind and the
\* conversation id it carries.
Answer(status, kind, id) == [status |-> status, kind |-> kind, id |-> id]
NoAnswer == Answer(0, "none", "")

IdleCall ==
    [pc |-> "idle", route |-> "none", id |-> GhostConv, response |-> NoResponse,
     data |-> "none", newId |-> "", performed |-> FALSE, answer |-> NoAnswer,
     body |-> [mode |-> "open"], sent |-> <<>>]

CallsIdle == calls = [r \in CallIds |-> IdleCall]

\* The catch block runs: fetch rejected (no response), or response.json()
\* could not parse the body.
Caught(response) == response.status = 0 \/ ~response.json

\* app.get("/api/health")
HealthAnswer(v, response, data) ==
    IF Caught(response)
    THEN Answer(200, IF v = 1 THEN "node" ELSE "node-only", "")
    ELSE Answer(200, data, "")

\* app.post("/api/init")
InitAnswer(v, response, data) ==
    IF Caught(response)
    THEN IF v = 1 THEN Answer(500, "Failed to initialize user", "") ELSE Answer(200, "demoUser", "")
    ELSE Answer(200, data, "")

\* app.get("/api/conversations")
ListAnswer(v, response, data) ==
    IF Caught(response)
    THEN IF v = 1 THEN Answer(500, "Failed to fetch conversations", "") ELSE Answer(200, "emptyList", "")
    ELSE Answer(200, data, "")

\* A variant that does not test response.ok.
GetAnswer_okUntested(v, response, data, id) ==
    IF Caught(response)
    THEN IF v = 1 THEN Answer(500, "Failed to fetch conversation", "")
         ELSE Answer(503, "Python backend unavailable", "")
    ELSE Answer(200, data, IF data = "conversation" THEN id ELSE "")

\* app.get("/api/conversations/:id")
GetAnswer(v, response, data, id) ==
    IF response.status = 0
    THEN IF v = 1 THEN Answer(500, "Failed to fetch conversation", "")
         ELSE Answer(503, "Python backend unavailable", "")
    ELSE IF ~response.ok THEN Answer(response.status, "Conversation not found", "")
    ELSE IF ~response.json
    THEN IF v = 1 THEN Answer(500, "Failed to fetch conversation", "")
         ELSE Answer(503, "Python backend unavailable", "")
    ELSE Answer(200, data, id)

\* app.post("/api/conversations"): id is data.conversation_id, or the
\* crypto.randomUUID() of the second variant's catch block.
CreateAnswer(v, response, data, newId) ==
    IF Caught(response)
    THEN IF v = 1 THEN Answer(500, "Failed to create conversation", "")
         ELSE Answer(201, "conversation", "random")
    ELSE Answer(201, "conversation", IF data = "created" THEN newId ELSE "undefined")

\* app.delete("/api/conversations/:id")
DeleteAnswer(v, response, data) ==
    IF Caught(response)
    THEN IF v = 1 THEN Answer(500, "Failed to delete conversation", "") ELSE Answer(200, "success", "")
    ELSE Answer(200, data, "")

\* A variant in which a handler goes on after the response of an if block.
EarlyReturn_missing(sent, rest) == sent \o rest

\* res.status(...).json(...); return;  The responses sent, and those the
\* rest of the handler would send.
EarlyReturn(sent, rest) == sent

\* The responses of app.get("/api/conversations/:id"), in order; the
\* statements after its if (!response.ok) block are those of an ok response.
GetSends(v, response, data, id) ==
    IF response.status # 0 /\ ~response.ok
    THEN EarlyReturn(<<GetAnswer(v, response, data, id)>>,
                     <<GetAnswer(v, [response EXCEPT !.ok = TRUE], data, id)>>)
    ELSE <<GetAnswer(v, response, data, id)>>

\* The message route after its validation: the catch block, the block of
\* if (!response.ok), which reads the body (the second variant with a
\* .catch), and the 201.
MessageForward(v, response, data) ==
    LET caught == <<Answer(CatchStatus(v), "Failed to process message", "")>>
    IN  IF response.status = 0 THEN caught
        ELSE IF response.ok
        THEN IF response.json THEN <<Answer(RouteStatus(v, response), data, "")>> ELSE caught
        ELSE IF response.json
        THEN EarlyReturn(<<Answer(RouteStatus(v, response), data, "")>>, caught)
        ELSE IF v = 1 THEN caught
        ELSE EarlyReturn(<<Answer(RouteStatus(v, response), "Unknown error", "")>>, caught)

\* The responses of app.post("/api/conversations/:id/messages"), in order.
MessageSends(v, body, response, data) ==
    IF ContentMissing(body)
    THEN EarlyReturn(<<Answer(400, "Content is required", "")>>,
                     MessageForward(v, response, data))
    ELSE MessageForward(v, response, data)

RouteAnswer(v, call) ==
    CASE call.route = "health" -> HealthAnswer(v, call.response, call.data)
      [] call.route = "message" ->
            MessageSends(v, call.body, call.response, call.data)[1]
      [] call.route = "init" -> InitAnswer(v, call.response, call.data)
      [] call.route = "list" -> ListAnswer(v, call.response, call.data)
      [] call.route = "get" -> GetAnswer(v, call.response, call.data, call.id)
      [] call.route = "create" -> CreateAnswer(v, call.response, call.data, call.newId)
      [] call.route = "delete" -> DeleteAnswer(v, call.response, call.data)

\* The responses a handler sends, in order: the handlers other than get and
\* message have one res.json at the end of the try block and one in the
\* catch block.
RouteSends(v, call) ==
    CASE call.route = "get" -> GetSends(v, call.response, call.data, call.id)
      [] call.route = "message" -> MessageSends(v, call.body, call.response, call.data)
      [] OTHER -> <<RouteAnswer(v, call)>>

\* The handler has run to its end.
Responded(v, call) ==
    [call EXCEPT !.pc = "done", !.answer = RouteAnswer(v, call), !.sent = RouteSends(v, call)]

\* A request reaches the message route: without content the handler answers
\* at once, otherwise it awaits proxyToFastAPI.
CallMessageRoute(r, id, body) ==
    /\ calls[r].pc = "idle"
    /\ LET call == [calls[r] EXCEPT !.route = "message", !.id = id, !.body = body]
       IN  calls' = [calls EXCEPT ![r] = IF ContentMissing(body) THEN Responded(variant, call)
                                         ELSE [call EXCEPT !.pc = "fetch"]]
    /\ UNCHANGED <<storeVars, turnVars, streamVars, opVars, shown, uiVars>>

\* A request reaches a route; the handler awaits proxyToFastAPI.
CallRoute(r, route, id) ==
    /\ calls[r].pc = "idle"
    /\ (route \in {"get", "delete"}) = (id # "")
    /\ calls' = [calls EXCEPT ![r].pc = "fetch", ![r].route = route, ![r].id = id]
    /\ UNCHANGED <<storeVars, turnVars, streamVars, opVars, shown, uiVars>>

\* fetch rejects: the backend is not running.
BackendUnreachable(r) ==
    /\ calls[r].pc = "fetch"
    /\ calls' = [calls EXCEPT ![r].pc = "answered", ![r].response = NoResponse]
    /\ UNCHANGED <<storeVars, turnVars, streamVars, opVars, shown, uiVars>>

\* The backend's operation fails: it answers 500, with a JSON body or
\* without, and the store is as it was.
BackendFails(r, response) ==
    /\ calls[r].pc = "fetch"
    /\ calls' = [calls EXCEPT ![r].pc = "answered", ![r].response = response,
                              ![r].data = IF response.json THEN "detail" ELSE "none"]
    /\ UNCHANGED <<storeVars, turnVars, streamVars, opVars, shown, uiVars>>

\* The backend has no conversation of the id.
BackendMisses(r) ==
    /\ calls[r].pc = "fetch"
    /\ calls[r].route \in {"get", "delete", "message"}
    /\ getConversation(conversations, calls[r].id) = None
    /\ calls' = [calls EXCEPT ![r].pc = "answered", ![r].response = BackendNotFound,
                              ![r].data = "detail"]
    /\ UNCHANGED <<storeVars, turnVars, streamVars, opVars, shown, uiVars>>

\* The backend reads the store and answers.
BackendReads(r) ==
    /\ calls[r].pc = "fetch"
    /\ \/ calls[r].route = "health" /\ calls' = [calls EXCEPT ![r].pc = "answered",
                                        ![r].response = BackendOk, ![r].data = "health",
                                        ![r].performed = TRUE]
       \/ calls[r].route = "init" /\ calls' = [calls EXCEPT ![r].pc = "answered",
                                        ![r].response = BackendOk, ![r].data = "user",
                                        ![r].performed = TRUE]
       \/ calls[r].route = "list" /\ calls' = [calls EXCEPT ![r].pc = "answered",
                                        ![r].response = BackendOk, ![r].data = "list",
                                        ![r].performed = TRUE]
       \/ /\ calls[r].route = "get"
          /\ getConversation(conversations, calls[r].id) # None
          /\ calls' = [calls EXCEPT ![r].pc = "answered", ![r].response = BackendOk,
                                    ![r].data = "conversation", ![r].performed = TRUE]
    /\ UNCHANGED <<storeVars, turnVars, streamVars, opVars, shown, uiVars>>

\* The backend creates a conversation for { user_id: 1, message: "Hello",
\* mode }; whether it stores the message as the conversation's first turn is
\* not read from the request, so both are kept.
BackendCreates(r, id, storesTurn) ==
    /\ calls[r].pc = "fetch"
    /\ calls[r].route = "create"
    /\ id \notin DOMAIN conversations \cup deleted
    /\ IF storesTurn
       THEN /\ conversations' = updateConversation(
                                    createConversation(conversations, ConversationRow(id, clock)),
                                    id, [title |-> DeriveTitle("Hello")], clock + 2)
            /\ messages' = createMessage(
                               createMessage(messages,
                                   MessageRow(nextId, id, "user", "Hello", clock + 1)),
                               MessageRow(nextId + 1, id, "assistant", "Hi there!", clock + 2))
            /\ clock' = clock + 3
            /\ nextId' = nextId + 2
       ELSE /\ conversations' = createConversation(conversations, ConversationRow(id, clock))
            /\ clock' = clock + 1
            /\ UNCHANGED <<messages, nextId>>
    /\ calls' = [calls EXCEPT ![r].pc = "answered", ![r].response = BackendOk,
                              ![r].data = "created", ![r].newId = id, ![r].performed = TRUE]
    /\ UNCHANGED <<turnVars, streamVars, opVars, shown, uiVars>>

\* The backend deletes the conversation and, by the cascade, its messages.
BackendDeletes(r) ==
    /\ calls[r].pc = "fetch"
    /\ calls[r].route = "delete"
    /\ getConversation(conversations, calls[r].id) # None
    /\ conversations' = deleteConversation(conversations, calls[r].id)
    /\ messages' = OnDeleteCascade(messages, calls[r].id)
    /\ deleted' = deleted \cup {calls[r].id}
    /\ calls' = [calls EXCEPT ![r].pc = "answered", ![r].response = BackendOk,
                              ![r].data = "success", ![r].performed = TRUE]
    /\ UNCHANGED <<clock, nextId, op, turnVars, streamVars, shown, uiVars>>

\* The backend stores the turn of a message and answers with both messages.
BackendStoresTurn(r) ==
    /\ calls[r].pc = "fetch"
    /\ calls[r].route = "message"
    /\ getConversation(conversations, calls[r].id) # None
    /\ LET id == calls[r].id
           content == BodyContent(calls[r].body)[1]
       IN  /\ messages' = createMessage(
                              createMessage(messages,
                                  MessageRow(nextId, id, "user", content, clock)),
                              MessageRow(nextId + 1, id, "assistant", "Hi there!", clock + 1))
           /\ conversations' = updateConversation(conversations, id, <<>>, clock + 1)
    /\ clock' = clock + 2
    /\ nextId' = nextId + 2
    /\ calls' = [calls EXCEPT ![r].pc = "answered", ![r].response = BackendOk,
                              ![r].data = "messages", ![r].performed = TRUE]
    /\ UNCHANGED <<deleted, op, turnVars, streamVars, shown, uiVars>>

\* The handler goes on after its await and sends the response.
RouteResponds(r) ==
    /\ calls[r].pc = "answered"
    /\ calls' = [calls EXCEPT ![r] = Responded(variant, calls[r])]
    /\ UNCHANGED <<storeVars, turnVars, streamVars, opVars, shown, uiVars>>

Init ==
    /\ \E k \in SeededTurns :
          /\ conversations = InitialConversations(2 * k)
          /\ messages = InitialMessages(2 * k)
          /\ clock = 2 * k + 1
          /\ nextId = 2 * k + 1
          /\ seeded = 2 * k
    /\ turn = [t \in TurnIds |-> IdleTurn]
    /\ variant \in RouteVariants
    /\ StreamIdle
    /\ StoreIdle
    /\ PageIdle
    /\ CallsIdle
    /\ SupervisorIdle
    /\ PageUnused

Next ==
    \/ \E t \in TurnIds, id \in ConvIds \cup {GhostConv}, body \in Bodies : SendMessage(t, id, body)
    \/ \E t \in TurnIds : ProxyFails(t)
    \/ \E t \in TurnIds : ReceiveMessage(t)
    \/ \E t \in TurnIds : PersistUser(t)
    \/ \E t \in TurnIds : BuildContext(t)
    \/ \E t \in TurnIds, completion \in Completions : Infer(t, completion)
    \/ \E t \in TurnIds : PersistAssistant(t)
    \/ \E t \in TurnIds : RouteReply(t)

Spec == Init /\ [][Next]_vars

\* The stream consumer alone, over every body of at most MaxEvents events.
StreamInit ==
    /\ conversations = InitialConversations(0)
    /\ messages = <<>>
    /\ clock = 1
    /\ nextId = 1
    /\ seeded = 0
    /\ turn = [t \in TurnIds |-> IdleTurn]
    /\ variant = 1
    /\ events \in EventSeqs(MaxEvents)
    /\ pos = 0
    /\ streamPc = "start"
    /\ fullContent = <<>>
    /\ emitted = <<>>
    /\ aiContent = <<>>
    /\ doneSeen = FALSE
    /\ StoreIdle
    /\ PageIdle
    /\ CallsIdle
    /\ SupervisorIdle
    /\ PageUnused

StreamNext ==
    \/ StreamOpen
    \/ StreamRejected
    \/ \E k \in 1..Len(Wire(events)) : StreamRead(k)
    \/ StreamEnd
    \/ StreamReadFails

SpecStream == StreamInit /\ [][StreamNext]_vars

\* The store alone: "c1" holds one complete turn, "c2" is fresh.
StoreInit ==
    /\ conversations = InitialConversations(2)
    /\ messages = InitialMessages(2)
    /\ clock = 3
    /\ nextId = 3
    /\ seeded = 2
    /\ turn = [t \in TurnIds |-> IdleTurn]
    /\ variant = 1
    /\ StreamIdle
    /\ StoreIdle
    /\ PageIdle
    /\ CallsIdle
    /\ SupervisorIdle
    /\ PageUnused

StoreNext ==
    \/ \E id \in NewConvIds, userId \in UserIds : StoreCreateConversation(id, userId)
    \/ \E id \in ConvIds \cup NewConvIds, role \in {"user", "assistant"} : StoreCreateMessage(id, role)
    \/ \E id \in ConvIds \cup NewConvIds : StoreDeleteConversation(id)
    \/ \E id \in ConvIds \cup NewConvIds : StoreDeleteMessagesByConversation(id)
    \/ \E id \in ConvIds \cup NewConvIds, data \in UpdateData : StoreUpdateConversation(id, data)

SpecStore == StoreInit /\ [][StoreNext]_vars

\* The other routes, two requests at a time, over a store of two
\* conversations, by either registerRoutes.
RoutesInit ==
    /\ conversations = InitialConversations(2)
    /\ messages = InitialMessages(2)
    /\ clock = 3
    /\ nextId = 3
    /\ seeded = 2
    /\ turn = [t \in TurnIds |-> IdleTurn]
    /\ variant \in RouteVariants
    /\ StreamIdle
    /\ StoreIdle
    /\ PageIdle
    /\ CallsIdle
    /\ SupervisorIdle
    /\ PageUnused

RoutesNext ==
    \/ \E r \in CallIds, route \in Routes, id \in ConvIds \cup {GhostConv, ""} : CallRoute(r, route, id)
    \/ \E r \in CallIds, id \in ConvIds \cup {GhostConv}, body \in Bodies : CallMessageRoute(r, id, body)
    \/ \E r \in CallIds : BackendStoresTurn(r)
    \/ \E r \in CallIds : BackendUnreachable(r)
    \/ \E r \in CallIds, response \in {BackendError, BackendErrorText} : BackendFails(r, response)
    \/ \E r \in CallIds : BackendMisses(r)
    \/ \E r \in CallIds : BackendReads(r)
    \/ \E r \in CallIds, id \in NewConvIds, storesTurn \in BOOLEAN : BackendCreates(r, id, storesTurn)
    \/ \E r \in CallIds : BackendDeletes(r)
    \/ \E r \in CallIds : RouteResponds(r)

SpecRoutes == RoutesInit /\ [][RoutesNext]_vars

\* The chat page from its mount: loadData has been called.
PageInit ==
    /\ conversations = InitialConversations(0)
    /\ messages = <<>>
    /\ clock = 1
    /\ nextId = 1
    /\ seeded = 0
    /\ turn = [t \in TurnIds |-> IdleTurn]
    /\ variant = 1
    /\ StreamIdle
    /\ StoreIdle
    /\ PageIdle
    /\ CallsIdle
    /\ SupervisorIdle
    /\ page = InitialPage
    /\ tasks = <<Task("load", "init", InitialPage, "")>>

SendOutcomes == {"resolved", "http error", "no body", "read error"}

PageNext ==
    \/ \E ok \in BOOLEAN : LoadInitUser(ok)
    \/ \E convs \in ListResults : LoadList(convs)
    \/ LoadListFails
    \/ \E ok \in BOOLEAN : LoadCreate(ok)
    \/ \E id \in {"k1"} \cup {NewIds[i] : i \in 1..Len(NewIds)} : SelectConversation(id)
    \/ NewChatClicked
    \/ \E t \in 1..(2 * MaxTasks + 1), ok \in BOOLEAN : CreateSettles(t, ok)
    \/ \E id \in {"k1", "k2"} \cup {NewIds[i] : i \in 1..Len(NewIds)} : DeleteClicked(id)
    \/ \E t \in 1..(2 * MaxTasks + 1), ok \in BOOLEAN : DeleteSettles(t, ok)
    \/ \E via \in {"button", "enter"} : SendStarted(via)
    \/ \E t \in 1..(2 * MaxTasks + 1) : SendChunk(t)
    \/ \E t \in 1..(2 * MaxTasks + 1), outcome \in SendOutcomes : SendSettles(t, outcome)

SpecPage == PageInit /\ [][PageNext]_vars

\* The supervisor alone, from a server that has not started the backend.
SupervisorInit ==
    /\ conversations = InitialConversations(0)
    /\ messages = <<>>
    /\ clock = 1
    /\ nextId = 1
    /\ seeded = 0
    /\ turn = [t \in TurnIds |-> IdleTurn]
    /\ variant = 1
    /\ StreamIdle
    /\ StoreIdle
    /\ PageIdle
    /\ CallsIdle
    /\ SupervisorIdle
    /\ PageUnused

SupervisorNext ==
    \/ \E how \in {"alive", "failed"} : StartCalled(how)
    \/ StopCalled
    \/ \E n \in Children : ChildError(n)
    \/ \E n \in Children, code \in ExitCodes \cup {SpawnErrorCode} : ChildClose(n, code)
    \/ \E i \in 1..(2 * MaxChildren) : ReadyTimerFires(i)
    \/ \E i \in 1..(2 * MaxChildren), how \in {"alive", "failed"} : RestartTimerFires(i, how)

SpecSupervisor == SupervisorInit /\ [][SupervisorNext]_vars

\* A timer that is due fires.
SpecSupervisorLive ==
    /\ SpecSupervisor
    /\ WF_vars(\E i \in 1..(2 * MaxChildren) : ReadyTimerFires(i))
    /\ WF_vars(\E i \in 1..(2 * MaxChildren), how \in {"alive", "failed"} : RestartTimerFires(i, how))


(***************************************************************************)
(* Properties of the message-send turn, checked under Spec.                *)
(***************************************************************************)
Rows(id) == {i \in 1..Len(messages) : messages[i].id = id}
RowOf(id) == messages[CHOOSE i \in 1..Len(messages) : messages[i].id = id]
RowsWithRole(role) == {i \in 1..Len(messages) : messages[i].role = role}

\* The upstream call raised, or its completion holds no content.
UpstreamFailed(c) ==
    \/ c.raised
    \/ c.choices = <<>>
    \/ c.choices[1].message = <<>>
    \/ c.choices[1].message[1].content \in {<<>>, <<"">>}

\* The payload lacks the content field, or the field is empty.
ContentAbsentOrEmpty(body) == "content" \notin DOMAIN body \/ body.content = ""

\* The turn's upstream call has been made and has settled.
Inferred(t) == turn[t].pc \in {"persist", "replied", "responded"} /\ turn[t].request # <<>>

\* The user message of turn t is in the store.
UserRowStored(t) ==
    \E i \in 1..Len(messages) :
        /\ messages[i].id = turn[t].userMsgId
        /\ messages[i].role = "user"
        /\ messages[i].conversation_id = turn[t].conv
        /\ messages[i].content = turn[t].body.content

\* C1: a turn whose inference call failed (the upstream call raised or gave no
\* content) ends with exactly one assistant message of its own in the store,
\* holding the fallback text, and the route answers with a 2xx status; over
\* all turns, every stored user message has one assistant message, except
\* those of the turns still under way.
C1_FallbackPersistedAndSuccess ==
    /\ \A t \in TurnIds :
          (Inferred(t) /\ UpstreamFailed(turn[t].completion)
                       /\ turn[t].pc \in {"replied", "responded"}) =>
             /\ Cardinality(Rows(turn[t].aiMsgId)) = 1
             /\ RowOf(turn[t].aiMsgId).role = "assistant"
             /\ RowOf(turn[t].aiMsgId).conversation_id = turn[t].conv
             /\ RowOf(turn[t].aiMsgId).content = FallbackText
             /\ (turn[t].pc = "responded" => turn[t].status \in 200..299)
    /\ Cardinality(RowsWithRole("assistant")) =
          Cardinality(RowsWithRole("user"))
            - Cardinality({t \in TurnIds : turn[t].userMsgId # 0 /\ turn[t].aiMsgId = 0})

C1_Witness ==
    \E t \in TurnIds :
        /\ turn[t].pc = "responded"
        /\ Inferred(t)
        /\ turn[t].completion = Raised
        /\ turn[t].status = 201
        /\ RowOf(turn[t].aiMsgId).content = FallbackText

\* The user message of turn t was stored before the context was built.
StoredFirst(t) ==
    /\ UserRowStored(t)
    /\ turn[t].request # <<>> => RowOf(turn[t].userMsgId).timestamp < turn[t].builtAt

C3_MissingContentRejected ==
    /\ \A t \in TurnIds :
          (turn[t].pc # "idle" /\ ContentAbsentOrEmpty(turn[t].body)) =>
             /\ turn[t].pc = "responded"
             /\ turn[t].status = 400
             /\ ~turn[t].forwarded
             /\ turn[t].response = NoResponse
             /\ turn[t].userMsgId = 0 /\ turn[t].aiMsgId = 0
    /\ \A i \in 1..Len(messages) :
          messages[i].id > seeded =>
             \E t \in TurnIds :
                /\ ~ContentAbsentOrEmpty(turn[t].body)
                /\ messages[i].id \in {turn[t].userMsgId, turn[t].aiMsgId}

C3_Witness ==
    \E t, u \in TurnIds :
        /\ turn[t].pc = "responded" /\ turn[t].body = [content |-> ""] /\ turn[t].status = 400
        /\ turn[u].aiMsgId # 0
        /\ Len(messages) = seeded + 2

\* The prior-turn messages of the request of turn t.
Prior(t) == SubSeq(turn[t].request, 1, Len(turn[t].request) - 1)

\* The messages of the turn's conversation that were stored when the
\* context was built, without the turn's own user message.
Eligible(t) ==
    SelectSeq(messages, LAMBDA m : /\ m.conversation_id = turn[t].conv
                                   /\ m.timestamp < turn[t].builtAt
                                   /\ m.id # turn[t].userMsgId)

\* C4: the prior-turn messages passed to the language model are never more
\* than 10: they are the last 10 messages of the conversation's history, all
\* of them when it holds fewer.
C4_ContextAtMostTen ==
    \A t \in TurnIds :
        turn[t].request # <<>> =>
            LET n == Len(Prior(t))
                e == Eligible(t)
            IN  /\ n <= 10
                /\ n = Min(10, Len(e))
                /\ \A i \in 1..n :
                      LET m == e[Len(e) - n + i]
                      IN  Prior(t)[i] = [role |-> m.role, content |-> m.content, src |-> m.id]

C4_Witness ==
    \E t \in TurnIds :
        /\ Len(turn[t].request) = 11
        /\ Len(Eligible(t)) > 10

\* C5: in the request sent to the language model the message that started
\* the turn comes once, as the last entry, with role "user"; the entries
\* before it are stored messages in their stored order, none of them the
\* turn's own user message.
C5_TriggerOnceAndLast ==
    \A t \in TurnIds :
        turn[t].request # <<>> =>
            LET n == Len(turn[t].request)
            IN  /\ turn[t].request[n] = [role |-> "user", content |-> turn[t].body.content, src |-> 0]
                /\ \A i \in 1..(n - 1) :
                      /\ turn[t].request[i].src \notin {0, turn[t].userMsgId}
                      /\ Rows(turn[t].request[i].src) # {}
                      /\ RowOf(turn[t].request[i].src).role = turn[t].request[i].role
                      /\ RowOf(turn[t].request[i].src).content = turn[t].request[i].content
                /\ \A i \in 1..(n - 2) :
                      RowOf(turn[t].request[i].src).timestamp
                         < RowOf(turn[t].request[i + 1].src).timestamp

C5_Witness ==
    \E t \in TurnIds :
        /\ Len(turn[t].request) >= 3
        /\ \E i \in 1..(Len(turn[t].request) - 1) :
              /\ turn[t].request[i].role = "user"
              /\ turn[t].request[i].content = turn[t].body.content
              /\ turn[t].request[i].src # turn[t].userMsgId

\* C9: generateResponse returns the completion's text when the upstream
\* call returns content, fails when the call raises or the completion has
\* no content, and never returns an empty string.
C9_GatewayReturnsTextOrFails ==
    \A t \in TurnIds :
        Inferred(t) =>
            LET c == turn[t].completion
                r == turn[t].result
            IN  /\ UpstreamFailed(c) => ~r.ok
                /\ ~UpstreamFailed(c) => (r.ok /\ r.text = c.choices[1].message[1].content[1])
                /\ r.ok => r.text # ""

C9_Witness ==
    \E t, u \in TurnIds :
        /\ Inferred(t) /\ turn[t].result = Returned("Hi there!")
        /\ Inferred(u) /\ ~turn[u].result.ok
        /\ turn[u].completion = Completion(<<[message |-> Some([content |-> Some("")])]>>)


(***************************************************************************)
(* Properties of the stream consumer, checked under SpecStream.            *)
(***************************************************************************)
\* The text of the fragments the server sent before the sentinel.
RECURSIVE ServerContent(_)
ServerContent(evs) ==
    IF evs = <<>> \/ Head(evs).kind = "done" THEN <<>>
    ELSE Head(evs).token \o ServerContent(Tail(evs))

\* The server sent well-formed fragments only, and nothing after the sentinel.
WellFormedBody(evs) ==
    \A i \in 1..Len(evs) :
        /\ evs[i].kind # "malformed"
        /\ evs[i].kind = "done" => i = Len(evs)

\* C6: when the stream has ended, the values passed to onChunk, put together,
\* are the content the call returns and the content the page shows, and they
\* are the fragments the server sent before the sentinel, none lost and none
\* twice, however the body was split into read chunks.
C6_FragmentsEqualContent ==
    (streamPc = "done" /\ WellFormedBody(events)) =>
        /\ Flatten(emitted) = fullContent
        /\ aiContent = fullContent
        /\ fullContent = ServerContent(events)

\* C7: once a "data: [DONE]" line has been read, nothing more is passed to
\* onChunk or added to the content, in the same chunk or in a later one.
C7_NothingAfterDone ==
    [][doneSeen => (emitted' = emitted /\ fullContent' = fullContent)]_vars

\* The lines of a chunk before its first sentinel line.
BeforeDone(lines) ==
    LET isDone(i) == lines[i] = DataPrefix \o DoneMarker
    IN  IF \E i \in 1..Len(lines) : isDone(i)
        THEN SubSeq(lines, 1, (CHOOSE i \in 1..Len(lines) :
                                  isDone(i) /\ \A j \in 1..(i - 1) : ~isDone(j)) - 1)
        ELSE lines

IsDataLine(line) == StartsWith(line, DataPrefix)
IsMalformed(line) == IsDataLine(line) /\ ~JSONParse(Slice(line, DataPrefix)).ok

\* The tokens of the well-formed fragment lines of a chunk, up to its sentinel.
WellFormedTokens(chunk) ==
    LET good == SelectSeq(BeforeDone(Split(chunk)),
                          LAMBDA l : IsDataLine(l) /\ ~IsMalformed(l))
    IN  [i \in 1..Len(good) |-> JSONParse(Slice(good[i], DataPrefix)).token]

HasMalformedLine(chunk) ==
    \E i \in 1..Len(BeforeDone(Split(chunk))) : IsMalformed(BeforeDone(Split(chunk))[i])

\* C8: a read whose chunk holds a fragment line that is not valid JSON does
\* not fail the call; the line adds nothing to onChunk or to the content, and
\* the well-formed fragment lines of the chunk, those after it too, are all
\* passed on, in order.
C8_MalformedFragmentDropped ==
    [][(streamPc = "reading" /\ pos' # pos
          /\ HasMalformedLine(SubSeq(Wire(events), pos + 1, pos')))
        => /\ streamPc' = "reading"
           /\ emitted' = emitted \o WellFormedTokens(SubSeq(Wire(events), pos + 1, pos'))
           /\ fullContent' = fullContent
                 \o Flatten(WellFormedTokens(SubSeq(Wire(events), pos + 1, pos')))]_vars

C8_Witness ==
    /\ streamPc = "done"
    /\ events = <<[kind |-> "malformed", token |-> <<>>], [kind |-> "token", token |-> <<"b">>]>>
    /\ emitted = <<(<<"b">>)>>
    /\ fullContent = <<"b">>


(***************************************************************************)
(* Properties of the store, checked under SpecStore.                       *)
(***************************************************************************)
\* C10: when deleteConversation(id) has run, no message of that conversation
\* is left, getMessages(id) is empty and getConversation(id) finds nothing;
\* the other conversations and their messages are as before.
C10_DeleteRemovesConversationAndMessages ==
    [][\A id \in ConvIds \cup NewConvIds :
          op' = <<"deleteConversation", id>> =>
             /\ \A i \in 1..Len(messages') : messages'[i].conversation_id # id
             /\ getMessages(messages', id) = <<>>
             /\ getConversation(conversations', id) = None
             /\ \A other \in (ConvIds \cup NewConvIds) \ {id} :
                   /\ getMessages(messages', other) = getMessages(messages, other)
                   /\ getConversation(conversations', other) = getConversation(conversations, other)]_vars

C10_Witness ==
    /\ op = <<"deleteConversation", "c1">>
    /\ "c1" \in deleted
    /\ getMessages(messages, "c1") = <<>>
    /\ Len(getMessages(messages, "c2")) = 2
    /\ getConversation(conversations, "c2") # None

StoreConvIds == ConvIds \cup NewConvIds

\* C11: every stored message names a conversation that is in the store, and
\* a createMessage for a conversation id that is not in the store fails:
\* the messages table is left as it was.
C11_MessagesReferenceConversations ==
    /\ [](\A i \in 1..Len(messages) : messages[i].conversation_id \in DOMAIN conversations)
    /\ [][\A id \in StoreConvIds :
            (op' = <<"createMessage", id>> /\ id \notin DOMAIN conversations)
               => (messages' = messages /\ nextId' = nextId)]_vars

C11_Witness ==
    /\ op = <<"createMessage", "c1">>
    /\ "c1" \in deleted
    /\ "c1" \notin DOMAIN conversations
    /\ Len(messages) = 1
    /\ messages[1].conversation_id = "c2"

\* The message is in the table, unchanged.
Kept(m, msgs) == \E j \in 1..Len(msgs) : msgs[j] = m

\* C12 as stated: no store operation changes a stored message, and none
\* removes a message whose conversation is still in the store.
C12_MessagesImmutableAndKept ==
    [][\A i \in 1..Len(messages) :
          LET m == messages[i]
          IN  /\ (\E j \in 1..Len(messages') : messages'[j].id = m.id) => Kept(m, messages')
              /\ m.conversation_id \in DOMAIN conversations' => Kept(m, messages')]_vars

\* C12 (amended): no store operation changes a stored message; a message
\* leaves the store only when deleteConversation or
\* deleteMessagesByConversation is run for its conversation, and the second
\* leaves the conversation itself in the store.
C12_MessagesImmutableRemovedByDeletesOnly ==
    [][/\ \A i \in 1..Len(messages) :
             LET m == messages[i]
             IN  /\ (\E j \in 1..Len(messages') : messages'[j].id = m.id) => Kept(m, messages')
                 /\ ~Kept(m, messages') =>
                       op' \in {<<"deleteConversation", m.conversation_id>>,
                                <<"deleteMessagesByConversation", m.conversation_id>>}
       /\ \A id \in StoreConvIds :
             op' = <<"deleteMessagesByConversation", id>> => conversations' = conversations]_vars

C12_Witness ==
    /\ op = <<"deleteMessagesByConversation", "c1">>
    /\ "c1" \in DOMAIN conversations
    /\ deleted = {}
    /\ getMessages(messages, "c1") = <<>>
    /\ Len(getMessages(messages, "c2")) = 1

\* C13: for every conversation, getMessages gives the messages of that
\* conversation, each once and no other, in non-decreasing timestamp order.
C13_GetMessagesOrdered ==
    \A id \in StoreConvIds :
        LET r == getMessages(messages, id)
            own == {i \in 1..Len(messages) : messages[i].conversation_id = id}
        IN  /\ \A i \in 1..(Len(r) - 1) : r[i].timestamp <= r[i + 1].timestamp
            /\ Len(r) = Cardinality(own)
            /\ {r[i] : i \in 1..Len(r)} = {messages[i] : i \in own}

C13_Witness ==
    /\ Len(getMessages(messages, "c1")) = 4
    /\ Len(getMessages(messages, "c2")) = 1
    /\ messages[3].conversation_id = "c2"

\* The fields of a conversation row.
ConversationFields == {"id", "user_id", "mode", "title", "created_at", "updated_at"}

\* The step is updateConversation(id, data) on a stored conversation.
IsUpdate(id, data) ==
    /\ op'[1] = "updateConversation" /\ op'[2] = id /\ op'[3] = data
    /\ id \in DOMAIN conversations

C18_ListByUpdatedAtDescending ==
    \A u \in UserIds :
        LET r == listConversations(conversations, u)
            own == {c \in DOMAIN conversations : conversations[c].user_id = u}
        IN  /\ Len(r) = Cardinality(own)
            /\ {r[i] : i \in 1..Len(r)} = {conversations[c] : c \in own}
            /\ \A i \in 1..(Len(r) - 1) : r[i].updated_at >= r[i + 1].updated_at
            /\ r # <<>> => \A c \in own : conversations[c].updated_at <= r[1].updated_at

C18_Witness ==
    /\ "c3" \in DOMAIN conversations
    /\ conversations["c3"].user_id = 2
    /\ deleted = {}
    /\ Len(listConversations(conversations, 1)) = 2
    /\ listConversations(conversations, 1)[1].id = "c2"
    /\ Len(listConversations(conversations, 2)) = 1

(***************************************************************************)
(* More properties of the message-send turn, checked under Spec.           *)
(***************************************************************************)
\* Where the entry of turn t with the role stands in a list of the page.
ShownAt(list, t, role) == {i \in 1..Len(list) : list[i] = [turn |-> t, role |-> role]}

\* C14: the user message of a turn comes before the turn's assistant reply,
\* in the stored order of the conversation and in the list the page shows,
\* also when two sends on one conversation overlap.
C14_UserBeforeAssistant ==
    /\ \A t \in TurnIds :
          turn[t].aiMsgId # 0 =>
             LET r == getMessages(messages, turn[t].conv)
             IN  \E i, j \in 1..Len(r) :
                    /\ i < j
                    /\ r[i].id = turn[t].userMsgId /\ r[i].role = "user"
                    /\ r[j].id = turn[t].aiMsgId /\ r[j].role = "assistant"
                    /\ r[i].timestamp < r[j].timestamp
    /\ \A c \in ConvIds, t \in TurnIds :
          LET u == ShownAt(shown[c], t, "user")
              a == ShownAt(shown[c], t, "assistant")
          IN  /\ Cardinality(u) = Cardinality(a)
              /\ Cardinality(u) = IF turn[t].conv = c /\ FromPage(c, turn[t].body) THEN 1 ELSE 0
              /\ \A i \in u, j \in a : i < j

C14_Witness ==
    /\ turn["t1"].conv = "c1" /\ turn["t2"].conv = "c1"
    /\ turn["t1"].userMsgId # 0
    /\ turn["t1"].userMsgId < turn["t2"].userMsgId
    /\ turn["t2"].userMsgId < turn["t2"].aiMsgId
    /\ turn["t2"].aiMsgId < turn["t1"].aiMsgId
    /\ Len(shown["c1"]) = 4
    /\ shown["c1"][1].turn = "t2"

\* The turn was the only one sent to its conversation, found it without
\* messages, and the backend has answered it.
SoleSendToFresh(t) ==
    /\ turn[t].pc = "responded"
    /\ turn[t].response # NoResponse
    /\ turn[t].conv \in DOMAIN conversations
    /\ turn[t].first
    /\ \A u \in TurnIds \ {t} : turn[u].conv # turn[t].conv \/ ~turn[u].forwarded

FirstUserMessage(r) ==
    r[CHOOSE i \in 1..Len(r) : r[i].role = "user" /\ \A j \in 1..(i - 1) : r[j].role # "user"]

\* The title is the first TitleMax characters of the content, marked as cut
\* exactly when the content is longer.
IsPrefixTitle(title, content) ==
    /\ title.text = content
    /\ title.len = Min(StrLen(content), TitleMax)
    /\ title.ellipsis = (StrLen(content) > TitleMax)

FirstSends(c) == {t \in TurnIds : turn[t].conv = c /\ turn[t].first /\ turn[t].userMsgId # 0}

FailedCall(r) ==
    /\ calls[r].pc = "done"
    /\ calls[r].response \in {NoResponse, BackendError, BackendErrorText}

\* C19: GET /api/conversations/:id for an id the backend has no conversation
\* of, never created or deleted, is answered with the backend's 404 and
\* { error: "Conversation not found" }; no answer to a request the backend
\* did not serve carries a conversation; the answer changes neither the store
\* nor another request, and a request for a stored conversation gets it.
C19_GetMissingConversationNotFound ==
    /\ [](\A r \in CallIds :
            (calls[r].pc = "done" /\ calls[r].route = "get") =>
                /\ calls[r].response = BackendNotFound =>
                      calls[r].answer = Answer(404, "Conversation not found", "")
                /\ ~calls[r].performed =>
                      /\ calls[r].answer.status >= 400
                      /\ calls[r].answer.kind # "conversation"
                      /\ calls[r].answer.id = ""
                /\ calls[r].performed =>
                      calls[r].answer = Answer(200, "conversation", calls[r].id))
    /\ [][\A r \in CallIds :
            (calls[r].response = BackendNotFound /\ calls[r].pc = "answered"
                /\ calls'[r].pc = "done") =>
                /\ \A q \in CallIds \ {r} : calls'[q] = calls[q]
                /\ UNCHANGED <<storeVars, turnVars, opVars, shown>>]_vars

C19_Witness ==
    /\ calls["r1"].route = "delete" /\ calls["r1"].id = "c1" /\ calls["r1"].performed
    /\ calls["r2"].route = "get" /\ calls["r2"].id = "c1" /\ calls["r2"].pc = "done"
    /\ calls["r2"].response = BackendNotFound
    /\ calls["r2"].answer.status = 404
    /\ "c1" \in deleted

\* C20: when the backend's operation behind a route failed, init, list and
\* get answer with a failure status, create does not answer 201 with a
\* conversation id, and delete does not answer { success: true }.
C20_FailurePropagated ==
    \A r \in CallIds :
        FailedCall(r) =>
            /\ calls[r].route \in {"init", "list", "get"} => calls[r].answer.status >= 400
            /\ calls[r].route = "create" =>
                  ~(calls[r].answer.status = 201 /\ calls[r].answer.kind = "conversation"
                      /\ calls[r].answer.id # "undefined")
            /\ calls[r].route = "delete" => calls[r].answer.kind # "success"

\* C29: every handler sends exactly one response for a request: none
\* before its end, one at its end (validation failure, backend success,
\* backend failure status, backend unreachable, body that is not JSON), which
\* is the answer of its route, and none after it, with either registerRoutes.
C29_ExactlyOneResponse ==
    /\ [](\A r \in CallIds :
            /\ Len(calls[r].sent) = IF calls[r].pc = "done" THEN 1 ELSE 0
            /\ calls[r].pc = "done" =>
                  /\ calls[r].sent = <<calls[r].answer>>
                  /\ calls[r].answer.status \in 200..599
                  /\ (calls[r].route = "message" /\ ContentMissing(calls[r].body)) =>
                        /\ calls[r].answer.status = 400
                        /\ calls[r].response = NoResponse /\ ~calls[r].performed)
    /\ [][\A r \in CallIds : calls[r].pc = "done" => calls'[r] = calls[r]]_vars

\* A message without content, answered 400 without a call of the backend,
\* and a message the backend answered with a 500 whose body is not JSON: one
\* response each.
C29_Witness ==
    /\ calls["r1"].route = "message" /\ calls["r1"].pc = "done"
    /\ calls["r1"].body = [content |-> ""]
    /\ calls["r1"].sent = <<Answer(400, "Content is required", "")>>
    /\ calls["r2"].route = "message" /\ calls["r2"].pc = "done"
    /\ calls["r2"].response = BackendErrorText
    /\ Len(calls["r2"].sent) = 1
    /\ calls["r2"].sent[1].status = 500
    /\ calls["r2"].sent[1].kind =
          IF variant = 1 THEN "Failed to process message" ELSE "Unknown error"

(***************************************************************************)
(* Properties of the backend supervisor, checked under SpecSupervisor.     *)
(***************************************************************************)
\* C21: at most one backend child is alive at a time, and a child that is
\* running is the one the pythonProcess handle refers to.
C21_AtMostOneChildAlive ==
    /\ Cardinality({n \in Children : Alive(n)}) <= 1
    /\ \A n \in Children : sup.child[n] = "alive" => sup.pythonProcess = n

\* C22: once stopPythonBackend has been called, a child is spawned only by
\* a call of startPythonBackend from outside, not by the restart timer.
C22_NoRestartAfterStop ==
    [][(sup.stopped /\ sup'.spawned > sup.spawned) => sup'.last[1] = "start"]_vars

\* The step is the 'close' event of a child, with the code.
IsClose(code) == sup'.last = <<"close", code>> /\ sup' # sup

\* The step is the 5-second timer.
IsRestart == sup'.last[1] = "restart" /\ sup'.restarts = sup.restarts + 1

\* C23: a 'close' with a code other than 0 arms one 5-second timer and a
\* 'close' with code 0 arms none; the timer, when it fires, spawns a child
\* unless the handle is set or a start is under way, in which case a child is
\* still there; and every timer armed fires in the end (up to MaxChildren).
C23_RestartAfterNonZeroExit ==
    /\ [][\A code \in ExitCodes \cup {SpawnErrorCode} :
            IsClose(code) =>
                sup'.timers = IF code # 0 THEN Append(sup.timers, RestartTimer)
                              ELSE sup.timers]_vars
    /\ [][IsRestart =>
            /\ (sup'.spawned = sup.spawned + 1)
                  = (sup.pythonProcess = NoProcess /\ ~sup.isRestarting)
            /\ sup'.spawned = sup.spawned =>
                  \E n \in Children : sup.child[n] \in {"alive", "killed", "failed"}]_vars
    /\ \A k \in Children :
          (sup.crashes >= k) ~> (sup.restarts >= k \/ sup.spawned = MaxChildren)

C23_Witness ==
    /\ sup.last[1] = "restart"
    /\ sup.spawned = 2
    /\ sup.child[1] = "closed" /\ sup.child[2] = "alive"
    /\ sup.pythonProcess = 2
    /\ sup.crashes = 1 /\ sup.restarts = 1
    /\ ~sup.stopped


(***************************************************************************)
(* Properties of the chat page, checked under SpecPage.                    *)
(***************************************************************************)
\* C24: a conversation whose deletion succeeded is not in the displayed
\* list again, also when it was the active and the last one.
C24_DeletedNeverReappears ==
    \A id \in page.removed : id \notin Ids(page.conversations)

\* C25: every conversation whose creation succeeded (and that was not
\* deleted) is in the displayed list, also with two New Chat actions
\* started before either has returned.
C25_CreatedIsListed ==
    \A id \in page.created \ page.removed : id \in Ids(page.conversations)

\* C26: at most one message send is in flight at a time.
C26_OneSendInFlight ==
    Cardinality(InFlight("send")) <= 1


\* The step delivers a fragment to the send t.
IsChunk(t) ==
    /\ t \in 1..Len(tasks)
    /\ tasks[t].kind = "send" /\ tasks[t].pc = "await" /\ tasks'[t].pc = "await"
    /\ tasks'[t].aiContent # tasks[t].aiContent

\* The message at position j of the conversation at position i is the
\* placeholder of the send t.
IsPlaceholder(t, i, j) ==
    /\ page.conversations[i].id = tasks[t].activeId
    /\ page.conversations[i].messages[j].id = tasks[t].aiMessageId

IsSendStart ==
    /\ Len(tasks') = Len(tasks) + 1
    /\ tasks'[Len(tasks')].kind = "send"

\* The step is the end of the send t: its streaming call has resolved or
\* rejected.
IsSendEnd(t) ==
    /\ t \in InFlight("send")
    /\ tasks'[t].pc = "done"

\* C28: the start of a send sets isTyping; the end of a send, whatever its
\* outcome (resolved, HTTP error, no body, read error), leaves isTyping
\* false; with no send in flight isTyping is false.
C28_TypingResetOnEveryOutcome ==
    /\ [][IsSendStart => page'.isTyping]_vars
    /\ [][\A t \in 1..Len(tasks) :
            IsSendEnd(t) => /\ ~page'.isTyping
                            /\ page'.last[1] = "send"
                            /\ page'.last[2] \in SendOutcomes]_vars
    /\ [](InFlight("send") = {} => ~page.isTyping)

\* A send whose stream broke off after a fragment: isTyping is false again.
C28_Witness ==
    /\ page.last = <<"send", "read error">>
    /\ InFlight("send") = {}
    /\ ~page.isTyping
    /\ \E i \in 1..Len(page.conversations) :
          \E j \in 1..Len(page.conversations[i].messages) :
              /\ page.conversations[i].messages[j].role = "assistant"
              /\ page.conversations[i].messages[j].content # <<>>


\* The step is the end of loadData without an error.
IsLoadedOk ==
    /\ page.isLoading /\ ~page'.isLoading
    /\ page'.last = <<"load", "ok">>

=============================================================================
